---- MODULE Spec2Model ----
(***************************************************************************)
(* CanIUpgradeBeatSaber: the mod reconciliation (intersect_against_       *)
(* available), the upgrade diff (upgrade_diff), the BeatModsVersion        *)
(* ordering, the row builders and the entry point main.                    *)
(*                                                                         *)
(* Python strings that are ordered (version numbers, mod names) are        *)
(* sequences of code points, so that split('.') and the string comparison  *)
(* are computed as Python computes them.  Strings that are only compared   *)
(* for equality (digests, paths, mod versions, links) are TLA+ strings.    *)
(* None is the empty tuple and a present optional value x is <<x>>.        *)
(* A Mod or a BeatModsVersion is a record.  Mod defines no __eq__, so       *)
(* `x in list` compares object identities: two Mod records stand for the   *)
(* same object iff they are equal, and the field oid tells apart two       *)
(* objects of equal contents.                                              *)
(***************************************************************************)
EXTENDS Integers, Sequences, FiniteSets, TLC

VARIABLES
    fn,              \* the function under call, or "main"
    input,           \* its arguments
    output,          \* its return value, NotReturned before the call returns
    pc,              \* main: the position in main
    target_version,  \* main: target_version, None before it is assigned
    each_ui,         \* main: the UI objects constructed so far
    alerts,          \* main: the (ui, message) alerts shown so far
    fetched,         \* main: the versions whose catalog was fetched
    exit_status,     \* main: the process exit status, None while running
    heap,            \* the list objects in memory: heap[a] is the list at reference a
    returned_files,  \* the references Mod.files has returned to its callers
    mutations        \* the number of changes callers made to what they were returned

vars == <<fn, input, output, pc, target_version, each_ui, alerts, fetched, exit_status,
          heap, returned_files, mutations>>
mainVars == <<pc, target_version, each_ui, alerts, fetched, exit_status>>
heapVars == <<heap, returned_files, mutations>>

None == <<>>
Some(x) == <<x>>
NotReturned == [returned |-> FALSE]
Returned(v) == [returned |-> TRUE, value |-> v]

Min(a, b) == IF a < b THEN a ELSE b

(***************************************************************************)
(* Strings as code points.                                                 *)
(***************************************************************************)
Ord(ch) ==
    CASE ch = "." -> 46
      [] ch = "0" -> 48 [] ch = "1" -> 49 [] ch = "2" -> 50 [] ch = "3" -> 51
      [] ch = "4" -> 52 [] ch = "5" -> 53 [] ch = "6" -> 54 [] ch = "7" -> 55
      [] ch = "8" -> 56 [] ch = "9" -> 57
      [] ch = "A" -> 65 [] ch = "B" -> 66 [] ch = "C" -> 67 [] ch = "I" -> 73
      [] ch = "P" -> 80 [] ch = "S" -> 83
      [] ch = "a" -> 97 [] ch = "b" -> 98 [] ch = "c" -> 99 [] ch = "p" -> 112

\* The Python string whose characters are the one-character strings of chars.
Str(chars) == [i \in 1..Len(chars) |-> Ord(chars[i])]

\* a > b of two str: the first differing code point decides, a proper prefix is smaller.
RECURSIVE StrGtFrom(_, _, _)
StrGtFrom(a, b, i) ==
    IF i > Len(a) THEN FALSE
    ELSE IF i > Len(b) THEN TRUE
    ELSE IF a[i] # b[i] THEN a[i] > b[i]
    ELSE StrGtFrom(a, b, i + 1)

StrGt(a, b) == StrGtFrom(a, b, 1)

StrLt(a, b) == StrGt(b, a)

\* s.split(sep) for a one-character separator.
RECURSIVE split(_, _)
split(s, sep) ==
    LET hits == {i \in 1..Len(s) : s[i] = sep} IN
    IF hits = {} THEN <<s>>
    ELSE LET k == CHOOSE i \in hits : \A j \in hits : i <= j IN
         <<SubSeq(s, 1, k - 1)>> \o split(SubSeq(s, k + 1, Len(s)), sep)

(***************************************************************************)
(* BeatModsVersion (src/model/beat_mods_version.py).                       *)
(***************************************************************************)
BeatModsVersion(version, alias) == [version |-> version, alias |-> alias]

\* A plausible slip: the segments compared as plain strings, without the length rule.
SegmentDecides_lexicographic(a, b) ==
    IF a # b THEN Some(StrGt(a, b)) ELSE None

\* A plausible slip: the length rule reversed, the shorter segment winning.
SegmentDecides_shorter_wins(a, b) ==
    IF Len(a) # Len(b) THEN Some(Len(a) < Len(b))
    ELSE IF a # b THEN Some(StrGt(a, b))
    ELSE None

\* One iteration of the loops of __gt__: Some(result) when this pair of
\* segments makes __gt__ return, None when the loop goes on.
SegmentDecides(a, b) ==
    IF Len(a) # Len(b) THEN Some(Len(a) > Len(b))
    ELSE IF a # b THEN Some(StrGt(a, b))
    ELSE None

\* for a, b in zip(xs, ys): the loop from its i-th iteration on.
RECURSIVE ZipWalk(_, _, _)
ZipWalk(xs, ys, i) ==
    IF i > Min(Len(xs), Len(ys)) THEN None
    ELSE LET r == SegmentDecides(xs[i], ys[i]) IN
         IF r # None THEN r ELSE ZipWalk(xs, ys, i + 1)

\* BeatModsVersion.__gt__
Gt(self, other) ==
    LET byVersion == ZipWalk(split(self.version, Ord(".")), split(other.version, Ord(".")), 1)
        byAlias == ZipWalk(split(self.alias, Ord(".")), split(other.alias, Ord(".")), 1)
    IN  IF byVersion # None THEN byVersion[1]
        ELSE IF byAlias # None THEN byAlias[1]
        ELSE FALSE

\* BeatModsVersion.__eq__ (both operands are BeatModsVersion objects)
Eq(self, other) == self.version = other.version /\ self.alias = other.alias

\* __le__ as functools.total_ordering derives it from __gt__: not (a > b).
Le(self, other) == ~Gt(self, other)

Lt_reversed_gt(self, other) == Gt(other, self)

\* __lt__ as functools.total_ordering derives it: not (a > b) and a != b.
Lt(self, other) == ~Gt(self, other) /\ ~Eq(self, other)

(***************************************************************************)
(* FileHash and Mod (src/model/mod.py).                                    *)
(***************************************************************************)
FileHash(file, md5_hash) == [file |-> file, hash |-> md5_hash]

\* FileHash.__eq__ (both operands are FileHash objects)
FileHashEq_with_path(self, other) == self.hash = other.hash /\ self.file = other.file

FileHashEq(self, other) == self.hash = other.hash

Mod(oid, name, version, link, files) ==
    [oid |-> oid, name |-> name, version |-> version, link |-> link, files |-> files]

\* x in list, for a list of Mod: Mod has no __eq__, so == is identity.
ModIn(x, list) == \E i \in 1..Len(list) : list[i] = x

\* [file for sublist in files for file in sublist]
RECURSIVE Flatten(_)
Flatten(files) ==
    IF files = <<>> THEN <<>> ELSE Head(files) \o Flatten(Tail(files))

\* Lower-cased copy of a str (what a case-insensitive comparison would compare).
Lower(s) == [i \in 1..Len(s) |-> IF s[i] >= 65 /\ s[i] <= 90 THEN s[i] + 32 ELSE s[i]]

\* A plausible slip: names compared without regard to case.
do_names_match_ignoring_case(self, other) == Lower(self.name) = Lower(other.name)

\* Mod.do_names_match
do_names_match(self, other) == self.name = other.name

\* Mod.do_file_hashes_match
do_file_hashes_match(self, other) ==
    LET self_files_flat == Flatten(self.files)
        other_files_flat == Flatten(other.files)
    IN  \E i \in 1..Len(self_files_flat) :
            \E j \in 1..Len(other_files_flat) :
                FileHashEq(self_files_flat[i], other_files_flat[j])

(***************************************************************************)
(* Mod._files in memory and the accessor Mod.files (src/model/mod.py).     *)
(* A list of lists of FileHash is stored as list objects: heap[a] is the   *)
(* list at reference a, the outer list holds the references of its groups  *)
(* and a group holds its FileHash values.  Mod.__init__ keeps the          *)
(* reference it is given; Store puts the outer list at reference ModFiles. *)
(***************************************************************************)
ModFiles == 1
Store(files) == <<[g \in 1..Len(files) |-> g + 1]>> \o files

\* The list of lists a reference stands for.
Deref(h, a) == [g \in 1..Len(h[a]) |-> h[h[a][g]]]

\* deepcopy of the list at a: a new outer list of new groups.
deepcopy(h, a) ==
    LET n == Len(h[a]) IN
    [heap |-> h \o [g \in 1..n |-> h[h[a][g]]] \o <<[g \in 1..n |-> Len(h) + g]>>,
     ref |-> Len(h) + n + 1]

Mod_files_shallow(h, self_files) == [heap |-> Append(h, h[self_files]), ref |-> Len(h) + 1]

\* the property files: return deepcopy(self._files)
Mod_files(h, self_files) == deepcopy(h, self_files)

\* list.pop(i) and list[i] = x
RemoveAt(list, i) == [k \in 1..(Len(list) - 1) |-> IF k < i THEN list[k] ELSE list[k + 1]]

(***************************************************************************)
(* intersect_against_available (src/util/installed_mods.py).               *)
(* st is the pair of lists the loops build: installed_available and        *)
(* installed_mods_found_available.                                         *)
(***************************************************************************)
\* A plausible slip: the uniqueness test left out.
AppendIfAbsent_unchecked(list, available) == Append(list, available)

\* if available not in installed_available: installed_available.append(available)
AppendIfAbsent(list, available) ==
    IF ModIn(available, list) THEN list ELSE Append(list, available)

\* for available in available_mods_for_version: ... (there is no break)
RECURSIVE IntersectInner(_, _, _, _)
IntersectInner(installed, available_mods_for_version, j, st) ==
    IF j > Len(available_mods_for_version) THEN st
    ELSE LET available == available_mods_for_version[j]
             st2 == IF do_file_hashes_match(available, installed)
                    THEN [installed_mods_found_available |->
                              Append(st.installed_mods_found_available, installed),
                          installed_available |->
                              AppendIfAbsent(st.installed_available, available)]
                    ELSE st
         IN  IntersectInner(installed, available_mods_for_version, j + 1, st2)

\* for installed in installed_mods: if installed not in installed_mods_found_available: ...
RECURSIVE IntersectOuter(_, _, _, _)
IntersectOuter(installed_mods, available_mods_for_version, i, st) ==
    IF i > Len(installed_mods) THEN st
    ELSE LET installed == installed_mods[i]
             st2 == IF ModIn(installed, st.installed_mods_found_available) THEN st
                    ELSE IntersectInner(installed, available_mods_for_version, 1, st)
         IN  IntersectOuter(installed_mods, available_mods_for_version, i + 1, st2)

\* A plausible slip: the final filter tests the wrong list.
intersect_filter_on_known(installed_mods, available_mods_for_version) ==
    LET st == IntersectOuter(installed_mods, available_mods_for_version, 1,
                  [installed_mods_found_available |-> <<>>, installed_available |-> <<>>])
    IN  <<st.installed_available,
          SelectSeq(installed_mods, LAMBDA installed : ~ModIn(installed, st.installed_available))>>

\* intersect_against_available: <<installed_available, installed_not_available>>
intersect_against_available(installed_mods, available_mods_for_version) ==
    LET st == IntersectOuter(installed_mods, available_mods_for_version, 1,
                  [installed_mods_found_available |-> <<>>, installed_available |-> <<>>])
    IN  <<st.installed_available,
          SelectSeq(installed_mods,
                    LAMBDA installed : ~ModIn(installed, st.installed_mods_found_available))>>

(***************************************************************************)
(* upgrade_diff (src/util/installed_mods.py).  A pair is <<old, new>>,     *)
(* new being None or Some(mod).  st is the pair of lists pairs, found_match.*)
(***************************************************************************)
\* for available in available_mods: if installed.do_names_match(available): ...; break
RECURSIVE UpgradeInner(_, _, _, _)
UpgradeInner(installed, available_mods, j, st) ==
    IF j > Len(available_mods) THEN st
    ELSE IF do_names_match(installed, available_mods[j])
         THEN [pairs |-> Append(st.pairs, <<installed, Some(available_mods[j])>>),
               found_match |-> Append(st.found_match, installed)]
         ELSE UpgradeInner(installed, available_mods, j + 1, st)

\* for installed in installed_mods: if installed not in found_match: ...
RECURSIVE UpgradeOuter(_, _, _, _)
UpgradeOuter(installed_mods, available_mods, i, st) ==
    IF i > Len(installed_mods) THEN st
    ELSE LET installed == installed_mods[i]
             searched == UpgradeInner(installed, available_mods, 1, st)
             st2 == IF ModIn(installed, st.found_match) THEN st
                    ELSE IF ModIn(installed, searched.found_match) THEN searched
                    ELSE [searched EXCEPT !.pairs = Append(@, <<installed, None>>)]
         IN  UpgradeOuter(installed_mods, available_mods, i + 1, st2)

\* upgrade_diff: the list of pairs
upgrade_diff(installed_mods, available_mods) ==
    UpgradeOuter(installed_mods, available_mods, 1,
                 [pairs |-> <<>>, found_match |-> <<>>]).pairs

(***************************************************************************)
(* Row builders (src/upgrade_check.py).                                    *)
(***************************************************************************)
\* safe_version: a Mod object is truthy, None is not.
safe_version(mod) == IF mod # None THEN mod[1].version ELSE None

\* boolean_text and optional_text, the formats of the columns 'Upgradeable'
\* and 'New Version': None and the empty string are falsy.
boolean_text(text) == IF text # None /\ text[1] # "" THEN "Yes" ELSE "No"
optional_text(text) == IF text # None /\ text[1] # "" THEN text[1] ELSE "-"

\* mod_name_sort_order, applied to the name (of the Mod, or the str itself)
mod_name_sort_order(name) == IF name = Str(<<"B", "S", "I", "P", "A">>) THEN Str(<<>>) ELSE name

\* sorted(items, key=...) is stable: items are <<key, value>>, e is put
\* before the first item of s whose key is greater than its own.
RECURSIVE InsertByKey(_, _)
InsertByKey(s, e) ==
    IF s = <<>> THEN <<e>>
    ELSE IF StrLt(e[1], Head(s)[1]) THEN <<e>> \o s
    ELSE <<Head(s)>> \o InsertByKey(Tail(s), e)

RECURSIVE SortedKeyed(_)
SortedKeyed(s) ==
    IF s = <<>> THEN <<>>
    ELSE InsertByKey(SortedKeyed(SubSeq(s, 1, Len(s) - 1)), s[Len(s)])

\* sorted(mod_diff, key=lambda x: mod_name_sort_order(x[0]))
SortedDiff(mod_diff) ==
    LET keyed == [i \in 1..Len(mod_diff) |->
                     <<mod_name_sort_order(mod_diff[i][1].name), mod_diff[i]>>]
        ordered == SortedKeyed(keyed)
    IN  [i \in 1..Len(ordered) |-> ordered[i][2]]

DiffRow(old, new) ==
    <<old.name, old.version, safe_version(new), old.version, safe_version(new), old.link>>

\* make_mod_diff_to_rows
make_mod_diff_to_rows(mod_diff, include_upgradeable) ==
    LET ordered == SortedDiff(mod_diff)
        kept == SelectSeq(ordered,
                    LAMBDA x : include_upgradeable \/ safe_version(x[2]) = None)
    IN  [i \in 1..Len(kept) |-> DiffRow(kept[i][1], kept[i][2])]

\* set(map(lambda x: x.name, mods))
UniqueNames(mods) == {mods[i].name : i \in 1..Len(mods)}

\* The orders in which a set of str can be iterated (str hashes are salted
\* per process, so the order is not determined by the set).
IterationOrders(S) ==
    {o \in [1..Cardinality(S) -> S] : \A x \in S : \E i \in DOMAIN o : o[i] = x}

\* make_mod_list_to_rows, the set being iterated in the order given
make_mod_list_to_rows(mods, order) ==
    LET keyed == [i \in 1..Len(order) |-> <<mod_name_sort_order(order[i]), order[i]>>]
        ordered == SortedKeyed(keyed)
    IN  [i \in 1..Len(ordered) |-> <<ordered[i][2], None, None, None, None, None>>]

(***************************************************************************)
(* get_latest_beat_saber_version (src/util/beat_saber.py).  The response   *)
(* of the alias service is a sequence of <<version, aliases>> items.       *)
(***************************************************************************)
RECURSIVE FlattenedVersions(_)
FlattenedVersions(items) ==
    IF items = <<>> THEN <<>>
    ELSE LET version == Head(items)[1]
             aliases == Head(items)[2]
         IN  <<BeatModsVersion(version, version)>>
             \o [i \in 1..Len(aliases) |-> BeatModsVersion(version, aliases[i])]
             \o FlattenedVersions(Tail(items))

\* max(flattened): the first item is kept until a later item is > it.
RECURSIVE MaxFrom(_, _, _)
MaxFrom(flattened, i, best) ==
    IF i > Len(flattened) THEN best
    ELSE MaxFrom(flattened, i + 1, IF Gt(flattened[i], best) THEN flattened[i] ELSE best)

get_latest_beat_saber_version(items) ==
    LET flattened == FlattenedVersions(items) IN MaxFrom(flattened, 2, flattened[1])

(***************************************************************************)
(* get_mods_for_version (src/util/available_mods.py).  The response of the *)
(* catalog service is a sequence of entries; an entry has a name, a        *)
(* version, a link (None when the key is missing) and its downloads, each  *)
(* a sequence of [file, hash] objects.  Each entry becomes a new Mod       *)
(* object; Mod.__init__ stores its arguments and checks nothing.           *)
(***************************************************************************)
EntryFiles(downloads) ==
    [g \in 1..Len(downloads) |->
        [f \in 1..Len(downloads[g]) |-> FileHash(downloads[g][f].file, downloads[g][f].hash)]]

get_mods_for_version(response) ==
    [i \in 1..Len(response) |->
        Mod(i, response[i].name, response[i].version, response[i].link,
            EntryFiles(response[i].downloads))]

(***************************************************************************)
(* get_bsipa (src/util/installed_mods.py): injector is the digest of       *)
(* IPA.Injector.dll, None when the install directory has no such file, and *)
(* then the function falls off its end and returns None.                   *)
(***************************************************************************)
get_bsipa(injector) ==
    IF injector # None
    THEN Some(Mod(1, Str(<<"B", "S", "I", "P", "A">>), None, None,
                  <<<<FileHash("Beat Saber_Data/Managed/IPA.Injector.dll", injector[1])>>>>))
    ELSE None

(***************************************************************************)
(* main (src/upgrade_check.py) up to the construction of the UIs.          *)
(***************************************************************************)
UIClasses == <<"ConsoleTableUI", "GraphicalTableUI">>

\* The positional parameters (after self) each UI constructor takes: at
\* least Required, at most Accepted.
CtorRequired(cls) == 3
CtorAccepted(cls) == IF cls = "ConsoleTableUI" THEN 3 ELSE 5

\* x(current_version, target_version, headers, aligns, dtypes)
MainCtorArgs == <<"current_version", "target_version", "headers", "aligns", "dtypes">>

\* Whether the call of line 206 binds its arguments to the constructor's
\* parameters; it raises TypeError otherwise.
CtorBinds(cls, ctor_args) ==
    Len(ctor_args) >= CtorRequired(cls) /\ Len(ctor_args) <= CtorAccepted(cls)

\* current_version = BeatModsVersion("1.13.4", "1.15.0")
current_version ==
    BeatModsVersion(Str(<<"1", ".", "1", "3", ".", "4">>), Str(<<"1", ".", "1", "5", ".", "0">>))

(***************************************************************************)
(* Bounds and the inputs drawn within them.                                *)
(***************************************************************************)
MaxInstalled == 2   \* longest list of installed (or known) mods
MaxCatalog == 2     \* longest catalog
MaxSegments == 2    \* most dot-separated segments of a generated version string
MaxRows == 3        \* longest list handed to a row builder
MaxAliasItems == 3  \* most items of a response of the alias service
MaxAliases == 1     \* most aliases of one item
MaxFilesCalls == 2  \* most calls of Mod.files whose result a caller keeps
MaxMutations == 2   \* most changes callers make to what they were returned

SeqsUpTo(S, n) == UNION {[1..k -> S] : k \in 0..n}

\* Mod names: "", "A", "BSIPA", "C", "a" ("A" sorts before "BSIPA", "a" after "C").
NameEmpty == Str(<<>>)
NameA == Str(<<"A">>)
NameBSIPA == Str(<<"B", "S", "I", "P", "A">>)
NameC == Str(<<"C">>)
NameLowerA == Str(<<"a">>)

Hashes == {"h1", "h2"}

\* What get_installed_mods builds for one file: Mod(file.stem, None, None, [[FileHash(str(file), hash)]]).
\* Two files of one stem (Plugins/A.dll, IPA/Pending/Plugins/A.dll) are two objects.
LocalMod(oid, dir, md5_hash) == Mod(oid, NameA, None, None, <<<<FileHash(dir, md5_hash)>>>>)
LocalPool ==
    {LocalMod(1, "Plugins/A.dll", h) : h \in Hashes}
        \cup {LocalMod(2, "IPA/Pending/Plugins/A.dll", h) : h \in Hashes}

\* What get_mods_for_version builds for one catalog entry; the layouts are
\* no download, one archive of one file, one archive of two files, two archives.
CatalogLayouts ==
    {<<>>,
     <<<<FileHash("Plugins/X.dll", "h1")>>>>,
     <<<<FileHash("Plugins/Y.dll", "h2")>>>>,
     <<<<FileHash("Plugins/X.dll", "h1"), FileHash("Libs/Y.dll", "h2")>>>>,
     <<<<FileHash("Plugins/X.dll", "h1")>>, <<FileHash("Libs/Y.dll", "h2")>>>>}
CatalogPool ==
    {Mod(10, n, Some("1.0"), None, f) : n \in {NameA, NameC}, f \in CatalogLayouts}

\* Known mods (entities of the current catalog) and entities of the target catalog.
DiffNames == {NameA, NameLowerA, NameC}
KnownPool ==
    {Mod(10, n, Some("1.0"), None, <<<<FileHash("Plugins/X.dll", "h1")>>>>) : n \in DiffNames}
TargetPool ==
    {Mod(20, n, Some("2.0"), Some("http://x"), <<<<FileHash("Plugins/X.dll", "h1")>>>>)
        : n \in DiffNames}
    \cup {Mod(21, n, Some("3.0"), Some("http://x"), <<<<FileHash("Plugins/X.dll", "h2")>>>>)
        : n \in DiffNames}

\* Diff pairs handed to make_mod_diff_to_rows, and local mods handed to
\* make_mod_list_to_rows (a file stem is never empty).
RowNames == {NameEmpty, NameA, NameBSIPA, NameC, NameLowerA}
RowOld(n) == Mod(10, n, Some("1.0"), None, <<<<FileHash("Plugins/X.dll", "h1")>>>>)
RowNew(n) == Mod(20, n, Some("2.0"), Some("http://x"), <<<<FileHash("Plugins/X.dll", "h2")>>>>)
\* A target entry whose "version" is null.
RowNewUnversioned(n) ==
    Mod(21, n, None, Some("http://x"), <<<<FileHash("Plugins/X.dll", "h2")>>>>)
RowPairs ==
    UNION {{<<RowOld(n), None>>, <<RowOld(n), Some(RowNew(n))>>,
            <<RowOld(n), Some(RowNewUnversioned(n))>>} : n \in RowNames}
RowMods ==
    {Mod(1, n, None, None, <<<<FileHash("Plugins/X.dll", "h1")>>>>)
        : n \in RowNames \ {NameEmpty}}

\* Version strings: dotted joins of 1..MaxSegments segments "3" or "10", and
\* the version numbers the documentation and the code name.
RECURSIVE Dotted(_)
Dotted(segments) ==
    IF Len(segments) = 1 THEN segments[1]
    ELSE segments[1] \o <<Ord(".")>> \o Dotted(Tail(segments))
SegmentPool == {Str(<<"3">>), Str(<<"1", "0">>)}
VersionStrings ==
    {Dotted(ss) : ss \in UNION {[1..k -> SegmentPool] : k \in 1..MaxSegments}}
v1_20_0 == Str(<<"1", ".", "2", "0", ".", "0">>)
v1_13_4 == Str(<<"1", ".", "1", "3", ".", "4">>)
v1_15_0 == Str(<<"1", ".", "1", "5", ".", "0">>)
v1_15_0_1 == Str(<<"1", ".", "1", "5", ".", "0", ".", "1">>)
v1_2_3 == Str(<<"1", ".", "2", ".", "3">>)
v1_2_10 == Str(<<"1", ".", "2", ".", "1", "0">>)
v1_1_0 == Str(<<"1", ".", "1", ".", "0">>)
v1_1_0p1 == Str(<<"1", ".", "1", ".", "0", "p", "1">>)
NamedVersions ==
    {BeatModsVersion(v1_20_0, v1_20_0), BeatModsVersion(v1_13_4, v1_15_0),
     BeatModsVersion(v1_2_3, v1_2_3), BeatModsVersion(v1_2_10, v1_2_10),
     BeatModsVersion(v1_1_0, v1_1_0), BeatModsVersion(v1_1_0, v1_1_0p1)}
GeneratedVersions == {BeatModsVersion(v, a) : v \in VersionStrings, a \in VersionStrings}
Versions == GeneratedVersions \cup NamedVersions

\* main: the --target values that pass validate_beat_saber_version, and
\* responses of the alias service.
MainTargets ==
    {BeatModsVersion(v, a) : v \in {v1_1_0, v1_13_4, v1_20_0},
                             a \in {v1_1_0p1, v1_13_4, v1_15_0, v1_15_0_1, v1_20_0}}
AliasResponses ==
    {<<<<v1_13_4, <<v1_15_0>>>>, <<v1_20_0, <<>>>>>>,
     <<<<v1_1_0, <<v1_1_0p1>>>>, <<v1_13_4, <<v1_15_0>>>>>>}

(***************************************************************************)
(* Specifications.  A function is called once on the arguments drawn by    *)
(* Init; main runs step by step.                                           *)
(***************************************************************************)
HeapIdle ==
    /\ heap = <<>>
    /\ returned_files = <<>>
    /\ mutations = 0

MainIdle ==
    /\ pc = "idle"
    /\ target_version = None
    /\ each_ui = <<>>
    /\ alerts = <<>>
    /\ fetched = {}
    /\ exit_status = None

Return(f, value) ==
    /\ fn = f
    /\ ~output.returned
    /\ output' = Returned(value)
    /\ UNCHANGED <<fn, input, mainVars, heapVars>>

\* --- intersect_against_available
InitReconcile ==
    /\ fn = "intersect_against_available"
    /\ input \in [installed_mods : SeqsUpTo(LocalPool, MaxInstalled),
                  available_mods_for_version : SeqsUpTo(CatalogPool, MaxCatalog)]
    /\ output = NotReturned
    /\ MainIdle
    /\ HeapIdle

CallIntersect ==
    Return("intersect_against_available",
           intersect_against_available(input.installed_mods, input.available_mods_for_version))

SpecReconcile == InitReconcile /\ [][CallIntersect]_vars

\* --- upgrade_diff
InitDiff ==
    /\ fn = "upgrade_diff"
    /\ input \in [installed_mods : SeqsUpTo(KnownPool, MaxInstalled),
                  available_mods : SeqsUpTo(TargetPool, MaxCatalog)]
    /\ output = NotReturned
    /\ MainIdle
    /\ HeapIdle

CallUpgradeDiff ==
    Return("upgrade_diff", upgrade_diff(input.installed_mods, input.available_mods))

SpecDiff == InitDiff /\ [][CallUpgradeDiff]_vars

\* --- BeatModsVersion.__gt__ on a pair
InitVersion ==
    /\ fn = "__gt__"
    /\ input \in [self : Versions, other : Versions]
    /\ output = NotReturned
    /\ MainIdle
    /\ HeapIdle

CallGt == Return("__gt__", Gt(input.self, input.other))

SpecVersion == InitVersion /\ [][CallGt]_vars

\* --- BeatModsVersion.__gt__ on the pairs of three identifiers
InitOrder ==
    /\ fn = "__gt__ among three"
    /\ input \in [a : GeneratedVersions, b : GeneratedVersions, c : GeneratedVersions]
    /\ output = NotReturned
    /\ MainIdle
    /\ HeapIdle

CallGtAmongThree ==
    Return("__gt__ among three",
           [aa |-> Gt(input.a, input.a), ab |-> Gt(input.a, input.b),
            ba |-> Gt(input.b, input.a), bc |-> Gt(input.b, input.c),
            ac |-> Gt(input.a, input.c)])

SpecOrder == InitOrder /\ [][CallGtAmongThree]_vars

\* --- the row builders
InitRows ==
    /\ \/ /\ fn = "make_mod_diff_to_rows"
          /\ input \in [mod_diff : SeqsUpTo(RowPairs, MaxRows), include_upgradeable : BOOLEAN]
       \/ /\ fn = "make_mod_list_to_rows"
          /\ input \in [mods : SeqsUpTo(RowMods, MaxRows)]
    /\ output = NotReturned
    /\ MainIdle
    /\ HeapIdle

CallDiffRows ==
    Return("make_mod_diff_to_rows",
           make_mod_diff_to_rows(input.mod_diff, input.include_upgradeable))

CallListRows ==
    /\ fn = "make_mod_list_to_rows"
    /\ \E order \in IterationOrders(UniqueNames(input.mods)) :
           Return("make_mod_list_to_rows", make_mod_list_to_rows(input.mods, order))

SpecRows == InitRows /\ [][CallDiffRows \/ CallListRows]_vars

\* --- main
Raised(exception) == [returned |-> FALSE, raised |-> exception]

\* The install directory holds no injector, the injector the catalog knows
\* or another build of it; the catalog of the current release is empty or
\* has the BSIPA entry.
InjectorDigests == {None, Some("h1"), Some("h9")}
CurrentCatalogs ==
    {<<>>,
     <<Mod(10, NameBSIPA, Some("4.1.3"), None,
           <<<<FileHash("Beat Saber_Data/Managed/IPA.Injector.dll", "h1"),
               FileHash("IPA.exe", "h2")>>>>)>>}

InitMain ==
    /\ fn = "main"
    /\ input \in [target : {None} \cup {Some(t) : t \in MainTargets},
                  aliases : AliasResponses,
                  injector : InjectorDigests,
                  current_catalog : CurrentCatalogs,
                  no_upgrade_only : BOOLEAN,
                  show_versions : BOOLEAN]
    /\ output = NotReturned
    /\ pc = "start"
    /\ target_version = None
    /\ each_ui = <<>>
    /\ alerts = <<>>
    /\ fetched = {}
    /\ exit_status = None
    /\ HeapIdle

\* lines 193-204: the slicer, the headers, current_version and target_version
MainVersions ==
    /\ fn = "main"
    /\ pc = "start"
    /\ target_version' = Some(IF input.target # None THEN input.target[1]
                              ELSE get_latest_beat_saber_version(input.aliases))
    /\ pc' = "construct_ui"
    /\ UNCHANGED <<fn, input, output, each_ui, alerts, fetched, exit_status, heapVars>>

\* lines 206-207: the next class of [ConsoleTableUI, GraphicalTableUI] is
\* called with five arguments; a TypeError nobody catches ends the process
\* with status 1.
MainConstructUI ==
    /\ fn = "main"
    /\ pc = "construct_ui"
    /\ LET cls == UIClasses[Len(each_ui) + 1] IN
       IF CtorBinds(cls, MainCtorArgs)
       THEN /\ each_ui' = Append(each_ui, cls)
            /\ pc' = IF Len(each_ui) + 1 = Len(UIClasses) THEN "check_target" ELSE pc
            /\ UNCHANGED <<output, exit_status>>
       ELSE /\ output' = Raised("TypeError")
            /\ pc' = "exited"
            /\ exit_status' = Some(1)
            /\ UNCHANGED each_ui
    /\ UNCHANGED <<fn, input, target_version, alerts, fetched, heapVars>>

SpecMain == InitMain /\ [][MainVersions \/ MainConstructUI]_vars

\* --- Mod.do_file_hashes_match in both directions
\* Entities of any layout: local files, catalog entries, an entry whose only
\* archive is empty and an entry that reuses a path under another digest.
MatchPool ==
    LocalPool \cup CatalogPool
        \cup {Mod(30, NameC, Some("1.0"), None, <<<<>>>>),
              Mod(31, NameA, Some("1.0"), None, <<<<FileHash("Plugins/X.dll", "h3")>>>>)}

InitFileMatch ==
    /\ fn = "do_file_hashes_match"
    /\ input \in [self : MatchPool, other : MatchPool]
    /\ output = NotReturned
    /\ MainIdle
    /\ HeapIdle

CallFileHashesMatch ==
    Return("do_file_hashes_match",
           [self_other |-> do_file_hashes_match(input.self, input.other),
            other_self |-> do_file_hashes_match(input.other, input.self)])

SpecFileMatch == InitFileMatch /\ [][CallFileHashesMatch]_vars

\* --- get_latest_beat_saber_version
\* The response of the alias service: a JSON object, so the version numbers
\* of its items are distinct; an item carries up to MaxAliases aliases.
AliasItems ==
    {<<version, aliases>> : version \in VersionStrings,
                            aliases \in SeqsUpTo(VersionStrings, MaxAliases)}
AliasTables ==
    {items \in SeqsUpTo(AliasItems, MaxAliasItems) :
        \A i, j \in 1..Len(items) : items[i][1] = items[j][1] => i = j}

InitLatest ==
    /\ fn = "get_latest_beat_saber_version"
    /\ input \in [response : AliasTables]
    /\ output = NotReturned
    /\ MainIdle
    /\ HeapIdle

\* max() of an empty list raises ValueError.
CallLatest ==
    /\ fn = "get_latest_beat_saber_version"
    /\ ~output.returned
    /\ "raised" \notin DOMAIN output
    /\ output' = IF FlattenedVersions(input.response) = <<>> THEN Raised("ValueError")
                  ELSE Returned(get_latest_beat_saber_version(input.response))
    /\ UNCHANGED <<fn, input, mainVars, heapVars>>

SpecLatest == InitLatest /\ [][CallLatest]_vars

\* --- get_mods_for_version
\* Entries of no download, one download of one file, one of two files, two downloads.
CatalogDownloads ==
    {<<>>,
     <<<<[file |-> "Plugins/X.dll", hash |-> "h1"]>>>>,
     <<<<[file |-> "Plugins/X.dll", hash |-> "h1"], [file |-> "Libs/Y.dll", hash |-> "h2"]>>>>,
     <<<<[file |-> "Plugins/X.dll", hash |-> "h1"]>>, <<[file |-> "Libs/Y.dll", hash |-> "h2"]>>>>}
CatalogEntries ==
    [name : {NameA, NameC}, version : {Some("1.0")}, link : {None, Some("http://x")},
     downloads : CatalogDownloads]

InitCatalog ==
    /\ fn = "get_mods_for_version"
    /\ input \in [response : SeqsUpTo(CatalogEntries, MaxCatalog)]
    /\ output = NotReturned
    /\ MainIdle
    /\ HeapIdle

CallGetMods == Return("get_mods_for_version", get_mods_for_version(input.response))

SpecCatalog == InitCatalog /\ [][CallGetMods]_vars

\* --- Mod.files and what callers do with its result
\* The entity whose files are read, the entity it is matched against, and
\* the group and the fingerprint a caller puts into a returned structure.
FilesSelfPool ==
    {Mod(10, NameA, Some("1.0"), None, f) :
        f \in {<<>>,
               <<<<FileHash("Plugins/X.dll", "h1")>>>>,
               <<<<FileHash("Plugins/X.dll", "h1")>>, <<FileHash("Libs/Y.dll", "h2")>>>>}}
FilesOtherPool ==
    {Mod(1, NameA, None, None, <<<<FileHash("Plugins/A.dll", h)>>>>) : h \in {"h1", "h3"}}
CallerFile == FileHash("Plugins/Z.dll", "h3")
CallerGroup == <<CallerFile>>

InitFiles ==
    /\ fn = "files"
    /\ input \in [self : FilesSelfPool, other : FilesOtherPool]
    /\ output = NotReturned
    /\ MainIdle
    /\ heap = Store(input.self.files)
    /\ returned_files = <<>>
    /\ mutations = 0

\* A caller reads self.files and keeps what it is returned.
CallFiles ==
    /\ fn = "files"
    /\ Len(returned_files) < MaxFilesCalls
    /\ LET r == Mod_files(heap, ModFiles) IN
           /\ heap' = r.heap
           /\ returned_files' = Append(returned_files, r.ref)
           /\ output' = Returned([call |-> "files", result |-> Deref(r.heap, r.ref),
                                   after |-> mutations])
    /\ UNCHANGED <<fn, input, mainVars, mutations>>

\* A caller calls self.do_file_hashes_match(other), which reads self._files.
CallMatchAfter ==
    /\ fn = "files"
    /\ output' = Returned([call |-> "do_file_hashes_match",
                            result |-> do_file_hashes_match(
                                           [input.self EXCEPT !.files = Deref(heap, ModFiles)],
                                           input.other),
                            after |-> mutations])
    /\ UNCHANGED <<fn, input, mainVars, heapVars>>

\* What a caller does to a structure it was returned.
Mutates(h) ==
    /\ fn = "files"
    /\ mutations < MaxMutations
    /\ heap' = h
    /\ mutations' = mutations + 1
    /\ UNCHANGED <<fn, input, output, mainVars, returned_files>>

AppendGroup ==
    \E r \in 1..Len(returned_files) :
        LET a == returned_files[r] IN
        Mutates(Append([heap EXCEPT ![a] = Append(@, Len(heap) + 1)], CallerGroup))

RemoveGroup ==
    \E r \in 1..Len(returned_files) :
        LET a == returned_files[r] IN
        \E i \in 1..Len(heap[a]) : Mutates([heap EXCEPT ![a] = RemoveAt(@, i)])

ReplaceGroup ==
    \E r \in 1..Len(returned_files) :
        LET a == returned_files[r] IN
        \E i \in 1..Len(heap[a]) :
            Mutates(Append([heap EXCEPT ![a][i] = Len(heap) + 1], CallerGroup))

AppendFingerprint ==
    \E r \in 1..Len(returned_files) :
        LET a == returned_files[r] IN
        \E i \in 1..Len(heap[a]) :
            Mutates([heap EXCEPT ![heap[a][i]] = Append(@, CallerFile)])

RemoveFingerprint ==
    \E r \in 1..Len(returned_files) :
        LET a == returned_files[r] IN
        \E i \in 1..Len(heap[a]) :
            \E k \in 1..Len(heap[heap[a][i]]) :
                Mutates([heap EXCEPT ![heap[a][i]] = RemoveAt(@, k)])

ReplaceFingerprint ==
    \E r \in 1..Len(returned_files) :
        LET a == returned_files[r] IN
        \E i \in 1..Len(heap[a]) :
            \E k \in 1..Len(heap[heap[a][i]]) :
                Mutates([heap EXCEPT ![heap[a][i]][k] = CallerFile])

SpecFiles ==
    InitFiles /\ [][CallFiles \/ CallMatchAfter \/ AppendGroup \/ RemoveGroup \/ ReplaceGroup
                      \/ AppendFingerprint \/ RemoveFingerprint \/ ReplaceFingerprint]_vars

\* --- the comparisons of a pair of BeatModsVersion
InitCompare ==
    /\ fn = "compare"
    /\ input \in [a : Versions, b : Versions]
    /\ output = NotReturned
    /\ MainIdle
    /\ HeapIdle

CallCompare ==
    Return("compare",
           [a_lt_b |-> Lt(input.a, input.b), a_eq_b |-> Eq(input.a, input.b),
            a_gt_b |-> Gt(input.a, input.b), b_lt_a |-> Lt(input.b, input.a),
            b_gt_a |-> Gt(input.b, input.a)])

SpecCompare == InitCompare /\ [][CallCompare]_vars

(***************************************************************************)
(* Properties.  The notions they use are stated on their own, not through  *)
(* the operators above.                                                    *)
(***************************************************************************)
\* The digests of an entity, and file-equality of two entities (spec section 3).
Digests(m) ==
    UNION {{m.files[g][f].hash : f \in 1..Len(m.files[g])} : g \in 1..Len(m.files)}
SharesFile(a, b) == Digests(a) \cap Digests(b) # {}

\* The first entity of a catalog that shares a file with m, if any.
FirstFileMatch(m, catalog) ==
    LET hits == {j \in 1..Len(catalog) : SharesFile(catalog[j], m)} IN
    IF hits = {} THEN None
    ELSE Some(catalog[CHOOSE j \in hits : \A h \in hits : j <= h])

\* a <= b in code point order: equal, a proper prefix, or smaller at the first difference.
CodePointLeq(a, b) ==
    \/ /\ Len(a) <= Len(b)
       /\ \A i \in 1..Len(a) : a[i] = b[i]
    \/ \E k \in 1..Min(Len(a), Len(b)) :
           /\ a[k] < b[k]
           /\ \A i \in 1..(k - 1) : a[i] = b[i]

\* The dot-separated segments of a string, by the positions of its dots.
SegmentsOf(s) ==
    LET cuts == {0, Len(s) + 1} \cup {i \in 1..Len(s) : s[i] = 46}
        Nth(k) == CHOOSE c \in cuts : Cardinality({d \in cuts : d < c}) = k
    IN  [k \in 1..(Cardinality(cuts) - 1) |-> SubSeq(s, Nth(k - 1) + 1, Nth(k) - 1)]

\* The reference comparison of two dotted strings: the first pair of
\* differing segments, when there is one, and whether the left one wins it.
FirstDifference(xs, ys) ==
    {i \in 1..Min(Len(xs), Len(ys)) : xs[i] # ys[i] /\ \A j \in 1..(i - 1) : xs[j] = ys[j]}
SegmentGreater(a, b) ==
    \/ Len(a) > Len(b)
    \/ Len(a) = Len(b) /\ ~CodePointLeq(a, b)
ReferenceGt(self, other) ==
    LET xv == SegmentsOf(self.version)
        yv == SegmentsOf(other.version)
        xa == SegmentsOf(self.alias)
        ya == SegmentsOf(other.alias)
        dv == FirstDifference(xv, yv)
        da == FirstDifference(xa, ya)
    IN  IF dv # {} THEN \E i \in dv : SegmentGreater(xv[i], yv[i])
        ELSE IF da # {} THEN \E i \in da : SegmentGreater(xa[i], ya[i])
        ELSE FALSE

ReconcileReturned == fn = "intersect_against_available" /\ output.returned
DiffReturned == fn = "upgrade_diff" /\ output.returned
GtReturned == fn = "__gt__" /\ output.returned

\* C1: every entity of the known list is the FIRST catalog entity, in catalog
\* order, that shares a file with some local entity: a later file-match of a
\* local entity is not counted.
C1_OnlyFirstMatchCounts ==
    ReconcileReturned =>
        LET known == output.value[1] IN
        \A k \in 1..Len(known) :
            \E i \in 1..Len(input.installed_mods) :
                FirstFileMatch(input.installed_mods[i], input.available_mods_for_version)
                    = Some(known[k])

\* C2: each local entity either shares a file with an entity of the known
\* list or is in the unknown list, never both, and the unknown list is the
\* subsequence of the local list, in its order, of the entities that share no
\* file with any entity of the catalog.
C2_Partition ==
    ReconcileReturned =>
        LET L == input.installed_mods
            C == input.available_mods_for_version
            known == output.value[1]
            unknown == output.value[2]
        IN  /\ \A i \in 1..Len(L) :
                   (\E k \in 1..Len(known) : SharesFile(L[i], known[k]))
                       <=> ~(\E u \in 1..Len(unknown) : unknown[u] = L[i])
            /\ unknown = SelectSeq(L, LAMBDA m : \A j \in 1..Len(C) : ~SharesFile(m, C[j]))

\* C2 witness: a call that returned both a known and an unknown entity, the
\* unknown one standing before a matched one in the local list.
C2_Witness ==
    /\ ReconcileReturned
    /\ Len(input.installed_mods) = 2
    /\ output.value[1] # <<>>
    /\ output.value[2] = <<input.installed_mods[1]>>

\* C3: the known list holds catalog entities only, never a local one, each at
\* most once; a catalog entity that two distinct local entities file-match is
\* in it exactly once.
C3_KnownIsCatalogOnce ==
    ReconcileReturned =>
        LET L == input.installed_mods
            C == input.available_mods_for_version
            known == output.value[1]
        IN  /\ \A k \in 1..Len(known) :
                   /\ \E j \in 1..Len(C) : C[j] = known[k]
                   /\ \A i \in 1..Len(L) : L[i] # known[k]
            /\ \A k1, k2 \in 1..Len(known) : known[k1] = known[k2] => k1 = k2
            /\ \A j \in 1..Len(C) :
                   (\E i1, i2 \in 1..Len(L) :
                        /\ L[i1] # L[i2]
                        /\ SharesFile(L[i1], C[j])
                        /\ SharesFile(L[i2], C[j]))
                       => Cardinality({k \in 1..Len(known) : known[k] = C[j]}) = 1

\* C3 witness: two distinct local entities file-match one catalog entity.
C3_Witness ==
    /\ ReconcileReturned
    /\ \E j \in 1..Len(input.available_mods_for_version) :
           \E i1, i2 \in 1..Len(input.installed_mods) :
               /\ input.installed_mods[i1] # input.installed_mods[i2]
               /\ SharesFile(input.installed_mods[i1], input.available_mods_for_version[j])
               /\ SharesFile(input.installed_mods[i2], input.available_mods_for_version[j])

\* C4: upgrade_diff returns one pair per element of knownLocal, the i-th
\* pair's old element being the i-th element of knownLocal.
C4_OnePairPerElement ==
    DiffReturned =>
        /\ Len(output.value) = Len(input.installed_mods)
        /\ \A i \in 1..Len(output.value) : output.value[i][1] = input.installed_mods[i]

\* C5: in every pair (old, new), new is absent exactly when no entity of the
\* target catalog has old's name, and when present it is the first entity of
\* the target catalog, in catalog order, with exactly old's name.
C5_FirstSameNamed ==
    DiffReturned =>
        \A i \in 1..Len(output.value) :
            LET old == output.value[i][1]
                new == output.value[i][2]
                same == {j \in 1..Len(input.available_mods) :
                            input.available_mods[j].name = old.name}
            IN  /\ new = None <=> same = {}
                /\ new # None =>
                       new[1] = input.available_mods[CHOOSE j \in same : \A h \in same : j <= h]

\* C5 witness: a pair whose new element is the first of two distinct
\* same-named target entities, beside a target entity whose name differs
\* from old's in case only.
C5_Witness ==
    /\ DiffReturned
    /\ \E i \in 1..Len(output.value) :
           /\ output.value[i][2] # None
           /\ \E j \in 1..Len(input.available_mods) :
                  /\ input.available_mods[j].name = output.value[i][1].name
                  /\ input.available_mods[j] # output.value[i][2][1]
    /\ \E i \in 1..Len(output.value) :
           /\ output.value[i][2] = None
           /\ \E j \in 1..Len(input.available_mods) :
                  Lower(input.available_mods[j].name) = Lower(output.value[i][1].name)

\* C6: > is irreflexive, asymmetric and transitive on all identifiers, those
\* with different numbers of segments included.
C6_StrictOrder ==
    (fn = "__gt__ among three" /\ output.returned) =>
        /\ ~output.value.aa
        /\ ~(output.value.ab /\ output.value.ba)
        /\ (output.value.ab /\ output.value.bc) => output.value.ac

\* C7: __gt__ returns what the reference comparison gives, and
\* ("1.20.0","1.20.0") > ("1.13.4","1.15.0") is true.
C7_GtIsReference ==
    GtReturned =>
        /\ output.value = ReferenceGt(input.self, input.other)
        /\ (input.self = BeatModsVersion(v1_20_0, v1_20_0)
              /\ input.other = BeatModsVersion(v1_13_4, v1_15_0)) => output.value = TRUE

\* C7 witness: the comparison of the documented example has returned.
C7_Witness ==
    /\ GtReturned
    /\ input.self = BeatModsVersion(v1_20_0, v1_20_0)
    /\ input.other = BeatModsVersion(v1_13_4, v1_15_0)
    /\ output.value = TRUE

\* C8 as stated: ("1.2.3","1.2.3") > ("1.2.10","1.2.10") is true.
C8_Original ==
    (GtReturned /\ input.self = BeatModsVersion(v1_2_3, v1_2_3)
                /\ input.other = BeatModsVersion(v1_2_10, v1_2_10))
        => output.value = TRUE

\* C8 as amended: ("1.2.3","1.2.3") > ("1.2.10","1.2.10") is false, the
\* longer segment "10" being the greater one, and the comparison the other
\* way round is true.
C8_LongerSegmentWins ==
    /\ (GtReturned /\ input.self = BeatModsVersion(v1_2_3, v1_2_3)
                   /\ input.other = BeatModsVersion(v1_2_10, v1_2_10))
           => output.value = FALSE
    /\ (GtReturned /\ input.self = BeatModsVersion(v1_2_10, v1_2_10)
                   /\ input.other = BeatModsVersion(v1_2_3, v1_2_3))
           => output.value = TRUE

\* C8 witness: that comparison has returned.
C8_Witness ==
    /\ GtReturned
    /\ input.self = BeatModsVersion(v1_2_3, v1_2_3)
    /\ input.other = BeatModsVersion(v1_2_10, v1_2_10)

\* C9: main fetches a catalog only for a target strictly greater than the
\* current version, and when the target is not greater main ends with every
\* UI alerted, exit status 1 and no catalog fetched.
C9_RejectedTargetAlertsEveryUI ==
    /\ (fn = "main" /\ fetched # {}) => Gt(target_version[1], current_version)
    /\ (fn = "main" /\ pc = "exited" /\ ~Gt(target_version[1], current_version)) =>
           /\ \A u \in 1..Len(UIClasses) :
                  \E a \in 1..Len(alerts) : alerts[a].ui = UIClasses[u]
           /\ exit_status = Some(1)
           /\ fetched = {}

\* C10: in the rows of either builder an entry named "BSIPA" comes before
\* every entry of another name, and the other entries are in ascending code
\* point order of their names.
C10_BSIPAFirstThenAscending ==
    (fn \in {"make_mod_diff_to_rows", "make_mod_list_to_rows"} /\ output.returned) =>
        \A i, j \in 1..Len(output.value) :
            i < j =>
                LET before == output.value[i][1]
                    after == output.value[j][1]
                IN  /\ after = NameBSIPA => before = NameBSIPA
                    /\ (before # NameBSIPA /\ after # NameBSIPA) => CodePointLeq(before, after)

\* The paths of an entity's fingerprints.
Paths(m) ==
    UNION {{m.files[g][f].file : f \in 1..Len(m.files[g])} : g \in 1..Len(m.files)}

\* C11: file-equality is symmetric: a.do_file_hashes_match(b) and
\* b.do_file_hashes_match(a) return the same value, and that value is true
\* exactly when some fingerprint of a and some fingerprint of b carry the
\* same digest, whatever the paths and the names, for entities of any
\* number of file groups, none included.
C11_FileEqualitySymmetric ==
    (fn = "do_file_hashes_match" /\ output.returned) =>
        /\ output.value.self_other = output.value.other_self
        /\ output.value.self_other = SharesFile(input.self, input.other)

\* Two entities of different names and no common path that match on a digest.
C11_Witness ==
    /\ fn = "do_file_hashes_match" /\ output.returned
    /\ output.value.self_other /\ output.value.other_self
    /\ input.self.name # input.other.name
    /\ Paths(input.self) \cap Paths(input.other) = {}
    /\ Len(input.self.files) # Len(input.other.files)

\* The candidates of get_latest_beat_saber_version: for every item of the
\* alias table the pair (version, version) and a pair (version, alias) for
\* each of its aliases.
Candidates(items) ==
    UNION {{BeatModsVersion(items[i][1], items[i][1])}
               \cup {BeatModsVersion(items[i][1], items[i][2][k]) : k \in 1..Len(items[i][2])}
           : i \in 1..Len(items)}

\* C12: get_latest_beat_saber_version returns a maximal candidate: the
\* returned identifier is a candidate and no candidate is greater than it.
C12_LatestIsMaximal ==
    (fn = "get_latest_beat_saber_version" /\ output.returned) =>
        /\ output.value \in Candidates(input.response)
        /\ \A e \in Candidates(input.response) : ~Gt(e, output.value)

\* C13: a Mod with an empty sequence of file groups cannot be constructed:
\* the constructor rejects it, so every Mod built from a catalog entry (and
\* handed on to intersect_against_available or upgrade_diff) has at least
\* one file group.
C13_NoModWithoutFileGroups ==
    (fn = "get_mods_for_version" /\ output.returned) =>
        \A i \in 1..Len(output.value) : output.value[i].files # <<>>

\* The rows of a given name that report an upgrade as available, and the
\* rows of that name whose 'Upgradeable' and 'New Version' fields are the
\* no-value sentinel.
RowsReportingUpgrade(rows, name) ==
    {i \in 1..Len(rows) :
        /\ rows[i][1] = name
        /\ boolean_text(rows[i][3]) = "Yes"
        /\ optional_text(rows[i][5]) # "-"}
RowsReportingNone(rows, name) ==
    {i \in 1..Len(rows) : rows[i][1] = name /\ rows[i][3] = None /\ rows[i][5] = None}
PairsWithUpgrade(mod_diff, name) ==
    {i \in 1..Len(mod_diff) : mod_diff[i][1].name = name /\ mod_diff[i][2] # None}
PairsWithoutUpgrade(mod_diff, name) ==
    {i \in 1..Len(mod_diff) : mod_diff[i][1].name = name /\ mod_diff[i][2] = None}

\* C14: a row of make_mod_diff_to_rows reports an upgrade as available
\* exactly when the new entity of its pair is present, and the no-value
\* sentinel otherwise; with include_upgradeable the result has one row per
\* pair, without it exactly the rows of the pairs that have no upgrade.
C14_RowsReportPresence ==
    (fn = "make_mod_diff_to_rows" /\ output.returned) =>
        LET rows == output.value
            mod_diff == input.mod_diff
        IN  /\ \A i \in 1..Len(rows) :
                   \/ i \in RowsReportingUpgrade(rows, rows[i][1])
                   \/ i \in RowsReportingNone(rows, rows[i][1])
            /\ \A name \in RowNames :
                   /\ Cardinality(RowsReportingNone(rows, name))
                          = Cardinality(PairsWithoutUpgrade(mod_diff, name))
                   /\ Cardinality(RowsReportingUpgrade(rows, name))
                          = IF input.include_upgradeable
                            THEN Cardinality(PairsWithUpgrade(mod_diff, name))
                            ELSE 0

\* The install has no BSIPA the catalog of the current release knows: the
\* injector file is missing, or no catalog entity carries its digest.
BSIPANotInstalled ==
    \/ get_bsipa(input.injector) = None
    \/ \A j \in 1..Len(input.current_catalog) :
           ~SharesFile(input.current_catalog[j], get_bsipa(input.injector)[1])

\* C15: when the injector is absent, or its digest matches no entity of the
\* catalog of the current release, main (for a target it accepts) ends with
\* every UI alerted "BSIPA is not installed.", exit status 1 and no other
\* error raised.
C15_MissingBSIPAAlertsEveryUI ==
    (/\ fn = "main" /\ pc = "exited"
     /\ Gt(target_version[1], current_version)
     /\ BSIPANotInstalled) =>
        /\ \A u \in 1..Len(UIClasses) :
               \E a \in 1..Len(alerts) :
                   alerts[a] = [ui |-> UIClasses[u], message |-> "BSIPA is not installed."]
        /\ exit_status = Some(1)
        /\ "raised" \notin DOMAIN output

\* C16: whatever callers do to the structures the accessor files returned
\* them (adding, removing or replacing groups or fingerprints), a later call
\* of files returns the file groups the Mod was constructed with, and a
\* later do_file_hashes_match answers as it would for those file groups.
C16_FilesUnchangedByCallers ==
    (fn = "files" /\ output.returned) =>
        /\ output.value.call = "files" => output.value.result = input.self.files
        /\ output.value.call = "do_file_hashes_match" =>
               output.value.result = SharesFile(input.self, input.other)

\* A call of files that returned after callers had changed both structures
\* they were returned before, one of them by a fingerprint put into a group
\* the Mod was constructed with.
C16_Witness ==
    /\ fn = "files" /\ output.returned
    /\ output.value.call = "files"
    /\ output.value.after = MaxMutations
    /\ input.self.files # <<>>
    /\ \E r \in 1..Len(returned_files) :
           /\ Deref(heap, returned_files[r]) # input.self.files
           /\ Len(Deref(heap, returned_files[r])) = Len(input.self.files)

====
